---- MODULE Spec2Model ----
(***************************************************************************)
(* Model of public/scripts/process_signatures.py: process() turns a        *)
(* signature image into a white silhouette whose alpha is a clamped linear *)
(* ramp of max(r,g,b), crops it to its padded bounding box and saves it;   *)
(* the module then calls process() on two fixed pairs of files.            *)
(***************************************************************************)
EXTENDS Integers, Sequences, FiniteSets

VARIABLES
    fs,      \* the file system: path -> file contents
    disk0,   \* the file system as it was when the program started (never changes)
    stdout,  \* the status lines printed so far
    pc,      \* invocation -> the statement it is at
    err,     \* invocation -> the exception that left it, "none" if there is none
    args,    \* invocation -> the arguments process() was called with
    rgb,     \* invocation -> local rgb (w, h and px)
    x,       \* invocation -> loop variable x
    y,       \* invocation -> loop variable y
    alpha,   \* invocation -> local alpha (the mask, cropped after line 39)
    box,     \* invocation -> the rectangle passed to crop(), << >> if none
    out      \* invocation -> local out

vars == <<fs, disk0, stdout, pc, err, args, rgb, x, y, alpha, box, out>>

\* ------------------------------------------------------------ bounds
MaxThreshold == 7
MaxGain == 18
MaxW == 3
MaxH == 3
MaxPad == 2
MaxBright == 2

\* ------------------------------------------------- program constants
DefaultThreshold == 6
DefaultGain == 18
DefaultPad == 24
ChannelMax == 255

Inv == 1..2

SrcPath(i) == IF i = 1 THEN "assets/signature-david.png" ELSE "assets/signature-farax.png"

\* mutant: both calls are given the same destination
DstPathShared(i) == "assets/signature-david-white.png"

DstPath(i) ==
    IF i = 1 THEN "assets/signature-david-white.png" ELSE "assets/signature-farax-white.png"

Paths == {SrcPath(i) : i \in Inv} \cup {DstPath(i) : i \in Inv}

DefaultArgs(i) ==
    [src_path |-> SrcPath(i), dst_path |-> DstPath(i),
     threshold |-> DefaultThreshold, gain |-> DefaultGain, pad |-> DefaultPad]

NoArgs == [src_path |-> "", dst_path |-> "", threshold |-> 0, gain |-> 0, pad |-> 0]

\* ------------------------------------------------------------ images
Coords(w, h) == (0..(w - 1)) \X (0..(h - 1))

Absent == [kind |-> "absent", w |-> 0, h |-> 0, px |-> [p \in {} |-> 0]]
Corrupt == [kind |-> "corrupt", w |-> 0, h |-> 0, px |-> [p \in {} |-> 0]]
NoImage == [kind |-> "none", w |-> 0, h |-> 0, px |-> [p \in {} |-> 0]]
NoBox == << >>

ImageFile(w, h, px) == [kind |-> "image", w |-> w, h |-> h, px |-> px]

\* Image.new(mode, (w, h), fill)
NewImage(w, h, fill) == ImageFile(w, h, [p \in Coords(w, h) |-> fill])

\* Image.open(src_path).convert('RGBA'), split() and merge('RGB', (r, g, b)):
\* the source's alpha channel is dropped
MergeRGB(im) == ImageFile(im.w, im.h, [p \in Coords(im.w, im.h) |-> <<im.px[p][1], im.px[p][2], im.px[p][3]>>])

\* mutant: the green and blue channels are never compared
MaxChannelRedOnly(p) == p[1]

\* m after lines 19-23
MaxChannel(p) ==
    LET m1 == p[1]
        m2 == IF p[2] > m1 THEN p[2] ELSE m1
    IN  IF p[3] > m2 THEN p[3] ELSE m2

\* mutant: the ramp starts one intensity late
MaskAlphaLate(m, threshold, gain) ==
    LET v == (m - threshold - 1) * gain
    IN  IF v <= 0 THEN 0
        ELSE IF v >= ChannelMax THEN ChannelMax
        ELSE v

\* mutant: no upper clamp, the 8-bit store wraps
MaskAlphaWrap(m, threshold, gain) ==
    LET v == (m - threshold) * gain
    IN  IF v <= 0 THEN 0 ELSE v % (ChannelMax + 1)

\* mutant: an intensity equal to the threshold already counts as ink
MaskAlphaEarly(m, threshold, gain) ==
    LET v == (m - threshold + 1) * gain
    IN  IF v <= 0 THEN 0
        ELSE IF v >= ChannelMax THEN ChannelMax
        ELSE v

\* the value stored in apx[x, y] by lines 24-30
MaskAlpha(m, threshold, gain) ==
    LET v == (m - threshold) * gain
    IN  IF v <= 0 THEN 0
        ELSE IF v >= ChannelMax THEN ChannelMax
        ELSE v

SetMin(S) == CHOOSE a \in S : \A b \in S : a <= b
SetMax(S) == CHOOSE a \in S : \A b \in S : a >= b

\* mutant: right and lower taken as the last non-zero column and row
GetBBoxInclusive(im) ==
    LET nz == {p \in Coords(im.w, im.h) : im.px[p] # 0}
    IN  IF nz = {} THEN NoBox
        ELSE <<SetMin({p[1] : p \in nz}), SetMin({p[2] : p \in nz}),
               SetMax({p[1] : p \in nz}), SetMax({p[2] : p \in nz})>>

\* alpha.getbbox(): the rectangle (left, upper, right, lower) of the non-zero
\* pixels, right and lower exclusive; none when every pixel is zero
GetBBox(im) ==
    LET nz == {p \in Coords(im.w, im.h) : im.px[p] # 0}
    IN  IF nz = {} THEN NoBox
        ELSE <<SetMin({p[1] : p \in nz}), SetMin({p[2] : p \in nz}),
               SetMax({p[1] : p \in nz}) + 1, SetMax({p[2] : p \in nz}) + 1>>

Max2(a, b) == IF a >= b THEN a ELSE b
Min2(a, b) == IF a <= b THEN a ELSE b

\* mutant: padding without the clamps
PadBoxUnclamped(bbox, w, h, pad) ==
    <<bbox[1] - pad, bbox[2] - pad, bbox[3] + pad, bbox[4] + pad>>

\* lines 34-38: the bounding box grown by pad and clamped to the image
PadBox(bbox, w, h, pad) ==
    <<Max2(0, bbox[1] - pad), Max2(0, bbox[2] - pad),
      Min2(w, bbox[3] + pad), Min2(h, bbox[4] + pad)>>

\* alpha.crop((x0, y0, x1, y1)): what lies outside the image reads as 0
CropImage(im, r) ==
    LET cw == Max2(0, r[3] - r[1])
        ch == Max2(0, r[4] - r[2])
    IN  ImageFile(cw, ch,
            [p \in Coords(cw, ch) |->
                LET q == <<r[1] + p[1], r[2] + p[2]>>
                IN  IF q \in Coords(im.w, im.h) THEN im.px[q] ELSE 0])

\* Image.new('RGBA', alpha.size, (255, 255, 255, 0)) and putalpha(alpha)
PutAlpha(mask) ==
    ImageFile(mask.w, mask.h,
        [p \in Coords(mask.w, mask.h) |-> <<ChannelMax, ChannelMax, ChannelMax, mask.px[p]>>])

\* the text of line 44
StatusLine(path, im) == [path |-> path, w |-> im.w, h |-> im.h]

\* ------------------------------------------------ process(), by statement
Open(i) ==
    /\ pc[i] = "open"
    /\ fs[args[i].src_path].kind = "image"
    /\ LET im == MergeRGB(fs[args[i].src_path])
       IN  /\ rgb' = [rgb EXCEPT ![i] = im]
           /\ alpha' = [alpha EXCEPT ![i] = NewImage(im.w, im.h, 0)]
    /\ x' = [x EXCEPT ![i] = 0]
    /\ y' = [y EXCEPT ![i] = 0]
    /\ pc' = [pc EXCEPT ![i] = "scan"]
    /\ UNCHANGED <<fs, disk0, stdout, err, args, box, out>>

\* mutant: the destination is opened for writing before the source is decoded
OpenRaiseAfterTruncate(i) ==
    /\ pc[i] = "open"
    /\ fs[args[i].src_path].kind # "image"
    /\ fs' = [fs EXCEPT ![args[i].dst_path] = Corrupt]
    /\ pc' = [pc EXCEPT ![i] = "raised"]
    /\ err' = [err EXCEPT ![i] = "decode"]
    /\ UNCHANGED <<disk0, stdout, args, rgb, x, y, alpha, box, out>>

\* Image.open raises: the file is missing or is no image
OpenRaise(i) ==
    /\ pc[i] = "open"
    /\ fs[args[i].src_path].kind # "image"
    /\ pc' = [pc EXCEPT ![i] = "raised"]
    /\ err' = [err EXCEPT ![i] = "decode"]
    /\ UNCHANGED <<fs, disk0, stdout, args, rgb, x, y, alpha, box, out>>

\* one pass of the body of the loops of lines 16-30
ScanPixel(i) ==
    /\ pc[i] = "scan"
    /\ LET p == <<x[i], y[i]>>
           m == MaxChannel(rgb[i].px[p])
           lastx == x[i] + 1 >= rgb[i].w
           lasty == y[i] + 1 >= rgb[i].h
       IN  /\ alpha' = [alpha EXCEPT ![i].px[p] = MaskAlpha(m, args[i].threshold, args[i].gain)]
           /\ x' = [x EXCEPT ![i] = IF lastx THEN 0 ELSE x[i] + 1]
           /\ y' = [y EXCEPT ![i] = IF lastx THEN y[i] + 1 ELSE y[i]]
           /\ pc' = [pc EXCEPT ![i] = IF lastx /\ lasty THEN "bbox" ELSE "scan"]
    /\ UNCHANGED <<fs, disk0, stdout, err, args, rgb, box, out>>

\* lines 32-39
Crop(i) ==
    /\ pc[i] = "bbox"
    /\ LET bbox == GetBBox(alpha[i])
       IN  IF bbox # NoBox
           THEN LET r == PadBox(bbox, rgb[i].w, rgb[i].h, args[i].pad)
                IN  /\ box' = [box EXCEPT ![i] = r]
                    /\ alpha' = [alpha EXCEPT ![i] = CropImage(alpha[i], r)]
           ELSE UNCHANGED <<box, alpha>>
    /\ pc' = [pc EXCEPT ![i] = "compose"]
    /\ UNCHANGED <<fs, disk0, stdout, err, args, rgb, x, y, out>>

\* lines 41-42
Compose(i) ==
    /\ pc[i] = "compose"
    /\ out' = [out EXCEPT ![i] = PutAlpha(alpha[i])]
    /\ pc' = [pc EXCEPT ![i] = "save"]
    /\ UNCHANGED <<fs, disk0, stdout, err, args, rgb, x, y, alpha, box>>

\* line 43
Save(i) ==
    /\ pc[i] = "save"
    /\ fs' = [fs EXCEPT ![args[i].dst_path] = out[i]]
    /\ pc' = [pc EXCEPT ![i] = "print"]
    /\ UNCHANGED <<disk0, stdout, err, args, rgb, x, y, alpha, box, out>>

\* out.save raises: either the destination cannot be opened for writing and
\* stays as it was, or the write fails part way and leaves a file that is no
\* image
SaveRaise(i) ==
    /\ pc[i] = "save"
    /\ \E partial \in BOOLEAN :
          fs' = IF partial THEN [fs EXCEPT ![args[i].dst_path] = Corrupt] ELSE fs
    /\ pc' = [pc EXCEPT ![i] = "raised"]
    /\ err' = [err EXCEPT ![i] = "write"]
    /\ UNCHANGED <<disk0, stdout, args, rgb, x, y, alpha, box, out>>

\* line 44
PrintStatus(i) ==
    /\ pc[i] = "print"
    /\ stdout' = Append(stdout, StatusLine(args[i].dst_path, out[i]))
    /\ pc' = [pc EXCEPT ![i] = "returned"]
    /\ UNCHANGED <<fs, disk0, err, args, rgb, x, y, alpha, box, out>>

Step(i) ==
    \/ Open(i)
    \/ OpenRaise(i)
    \/ ScanPixel(i)
    \/ Crop(i)
    \/ Compose(i)
    \/ Save(i)
    \/ SaveRaise(i)
    \/ PrintStatus(i)

\* ------------------------------------------- one call of process()
\* the locals of an invocation that has not run
LocalsInit ==
    /\ err = [i \in Inv |-> "none"]
    /\ rgb = [i \in Inv |-> NoImage]
    /\ x = [i \in Inv |-> 0]
    /\ y = [i \in Inv |-> 0]
    /\ alpha = [i \in Inv |-> NoImage]
    /\ box = [i \in Inv |-> NoBox]
    /\ out = [i \in Inv |-> NoImage]
    /\ stdout = << >>

\* process(src, dst, threshold, gain, pad) has just been called once, on a
\* source drawn from images, the destination not existing
CalledOnce(images, thresholds, gains, pads) ==
    /\ \E f \in images \cup {Absent} :
          fs = [p \in Paths |-> IF p = SrcPath(1) THEN f ELSE Absent]
    /\ disk0 = fs
    /\ \E t \in thresholds, g \in gains, d \in pads :
          args = [i \in Inv |->
                    IF i = 1
                    THEN [src_path |-> SrcPath(1), dst_path |-> DstPath(1),
                          threshold |-> t, gain |-> g, pad |-> d]
                    ELSE NoArgs]
    /\ pc = [i \in Inv |-> IF i = 1 THEN "open" ELSE "notstarted"]
    /\ LocalsInit

UnitNext == Step(1)

\* a pixel row with every intensity 0..255 once, the channel that carries the
\* maximum changing from pixel to pixel
Rot(t, s) ==
    IF s = 0 THEN <<t[1], t[2], t[3]>>
    ELSE IF s = 1 THEN <<t[3], t[1], t[2]>>
    ELSE <<t[2], t[3], t[1]>>

Gradient(k) ==
    ImageFile(ChannelMax + 1, 1,
        [p \in Coords(ChannelMax + 1, 1) |->
            LET c == Rot(<<p[1], p[1] \div 2, 0>>, (p[1] + k) % 3)
            IN  <<c[1], c[2], c[3], ChannelMax>>])

RampInit ==
    CalledOnce({Gradient(k) : k \in 0..1}, 0..MaxThreshold, 0..MaxGain, {DefaultPad})

RampSpec == RampInit /\ [][UnitNext]_vars

\* small images: a background of one dark pixel value with at most MaxBright
\* pixels of one brighter value
Palettes ==
    { << <<0, 0, 0, 255>>, <<255, 255, 255, 255>> >>,
      << <<6, 2, 6, 0>>, <<0, 7, 0, 255>> >> }

CropImages ==
    UNION { { ImageFile(w, h, [p \in Coords(w, h) |-> IF p \in B THEN c[2] ELSE c[1]]) :
                B \in {S \in SUBSET Coords(w, h) : Cardinality(S) <= MaxBright},
                c \in Palettes }
            : w \in 1..MaxW, h \in 1..MaxH }

CropInit == CalledOnce(CropImages, {0, DefaultThreshold}, {DefaultGain}, 0..MaxPad)

CropSpec == CropInit /\ [][UnitNext]_vars

\* a 10x10 black image with one white pixel at (5, 5)
ScenarioImage ==
    ImageFile(10, 10,
        [p \in Coords(10, 10) |->
            IF p = <<5, 5>> THEN <<255, 255, 255, 255>> ELSE <<0, 0, 0, 255>>])

ScenarioInit == CalledOnce({ScenarioImage}, {6}, {18}, {2})

ScenarioSpec == ScenarioInit /\ [][UnitNext]_vars

\* --------------------------------------------- the program, lines 46-48
\* mutant: the calls are made in no fixed order
CanCallAnyOrder(i) == TRUE

\* mutant: an exception of an earlier call is swallowed and the run goes on
CanCallAfterFailure(i) == \A j \in Inv : j < i => pc[j] \in {"returned", "raised"}

\* statement i of lines 47-48 is reached when the calls before it have returned;
\* an exception leaves the module, the statements after it are never reached
CanCall(i) == \A j \in Inv : j < i => pc[j] = "returned"

DoCall(i) ==
    /\ pc[i] = "notstarted"
    /\ args' = [args EXCEPT ![i] = DefaultArgs(i)]
    /\ pc' = [pc EXCEPT ![i] = "open"]
    /\ UNCHANGED <<fs, disk0, stdout, err, rgb, x, y, alpha, box, out>>

Call(i) == CanCall(i) /\ DoCall(i)

\* the files the program may find: each source missing, undecodable or a 2x1
\* image; each destination missing or left by an earlier run
SourceImages ==
    { ImageFile(2, 1, [p \in Coords(2, 1) |-> IF p[1] = 0 THEN a ELSE b]) :
        a, b \in {<<0, 0, 0, 255>>, <<0, 7, 0, 255>>, <<255, 255, 255, 255>>} }

Stale == ImageFile(1, 1, [p \in Coords(1, 1) |-> <<255, 255, 255, 255>>])

Disks ==
    { [p \in Paths |->
         IF p = SrcPath(1) THEN s1 ELSE IF p = SrcPath(2) THEN s2
         ELSE IF p = DstPath(1) THEN d1 ELSE d2] :
        s1 \in SourceImages \cup {Absent, Corrupt},
        s2 \in SourceImages \cup {Absent, Corrupt},
        d1 \in {Absent, Stale}, d2 \in {Absent, Stale} }

Init ==
    /\ fs \in Disks
    /\ disk0 = fs
    /\ args = [i \in Inv |-> NoArgs]
    /\ pc = [i \in Inv |-> "notstarted"]
    /\ LocalsInit

Next == \E i \in Inv : Call(i) \/ Step(i)

Spec == Init /\ [][Next]_vars

\* the interpreter keeps executing the next statement until the module ends or
\* an exception leaves it
LiveSpec == Spec /\ WF_vars(Next)

\* the two calls run side by side, their statements interleaved in any order
\* (section 5 of the specification; the program itself runs them in sequence)
ParCall(i) == DoCall(i)

ParNext == \E i \in Inv : ParCall(i) \/ Step(i)

ParSpec == Init /\ [][ParNext]_vars

\* process() as a function from the source file to the image it saves
ProcessImage(f, a) ==
    LET im == MergeRGB(f)
        mask == ImageFile(im.w, im.h,
                    [p \in Coords(im.w, im.h) |-> MaskAlpha(MaxChannel(im.px[p]), a.threshold, a.gain)])
        bbox == GetBBox(mask)
        cropped == IF bbox # NoBox THEN CropImage(mask, PadBox(bbox, im.w, im.h, a.pad)) ELSE mask
    IN  PutAlpha(cropped)

\* ------------------------------------------------------------ claims
\* the pixels of the mask of invocation i, once its loops have written all of it
\* (and before line 39 crops it)
Scanned(i) == IF pc[i] = "bbox" THEN Coords(rgb[i].w, rgb[i].h) ELSE {}

\* max(r, g, b) of a pixel
PixelMax(c) == SetMax({c[1], c[2], c[3]})

CeilDiv(a, b) == (a + b - 1) \div b

\* C1: every mask value written is 0 when v = (max(r,g,b) - threshold) * gain is
\* <= 0, 255 when v >= 255 and v itself otherwise; a pixel with
\* max(r,g,b) <= threshold gets 0.
C1_AlphaIsClampedRamp ==
    \A p \in Scanned(1) :
        LET m == PixelMax(rgb[1].px[p])
            v == (m - args[1].threshold) * args[1].gain
            a == alpha[1].px[p]
        IN  /\ v <= 0 => a = 0
            /\ v >= 255 => a = 255
            /\ (0 < v /\ v < 255) => a = v
            /\ m <= args[1].threshold => a = 0

\* all three cases of the ramp have been written, by pixels whose maximum is
\* not in the red channel
C1_Witness ==
    /\ pc[1] = "bbox"
    /\ args[1].threshold = DefaultThreshold /\ args[1].gain = DefaultGain
    /\ \E p, q, r \in Scanned(1) :
        /\ rgb[1].px[p][1] < PixelMax(rgb[1].px[p])
        /\ PixelMax(rgb[1].px[p]) = 6 /\ alpha[1].px[p] = 0
        /\ rgb[1].px[q][1] < PixelMax(rgb[1].px[q])
        /\ PixelMax(rgb[1].px[q]) = 10 /\ alpha[1].px[q] = 72
        /\ PixelMax(rgb[1].px[r]) = 40 /\ alpha[1].px[r] = 255

\* C2: with gain >= 1, a pixel with max(r,g,b) >= threshold + ceil(255/gain) gets
\* mask value 255; with the defaults that is every pixel with max(r,g,b) >= 21.
C2_OpaqueFromCeil ==
    \A p \in Scanned(1) :
        LET m == PixelMax(rgb[1].px[p])
            t == args[1].threshold
            g == args[1].gain
        IN  /\ (g >= 1 /\ m >= t + CeilDiv(255, g)) => alpha[1].px[p] = 255
            /\ (t = 6 /\ g = 18 /\ m >= 21) => alpha[1].px[p] = 255

\* the pixel of intensity exactly threshold + ceil(255/gain) is opaque and the
\* one just below it is not, for the defaults and for a gain that does not
\* divide 255
C2_Witness ==
    /\ pc[1] = "bbox"
    /\ args[1].gain \in {7, DefaultGain}
    /\ \E p, q \in Scanned(1) :
        /\ PixelMax(rgb[1].px[p]) = args[1].threshold + CeilDiv(255, args[1].gain)
        /\ alpha[1].px[p] = 255
        /\ PixelMax(rgb[1].px[q]) = PixelMax(rgb[1].px[p]) - 1
        /\ alpha[1].px[q] < 255

\* the pairs (max(r,g,b), mask value) of the scanned image
RampPairs(i) == {<<PixelMax(rgb[i].px[p]), alpha[i].px[p]>> : p \in Scanned(i)}

\* C3: for fixed threshold and gain the mask value is non-decreasing in
\* max(r,g,b): m1 <= m2 implies alpha(m1) <= alpha(m2), over all of 0..255.
C3_AlphaMonotone ==
    pc[1] = "bbox" =>
        \A s, t \in RampPairs(1) : s[1] <= t[1] => s[2] <= t[2]

\* a finished scan of all 256 intensities with the defaults: both plateaus and
\* the strictly rising part between them
C3_Witness ==
    /\ pc[1] = "bbox"
    /\ args[1].threshold = DefaultThreshold /\ args[1].gain = DefaultGain
    /\ {s[1] : s \in RampPairs(1)} = 0..ChannelMax
    /\ {<<0, 0>>, <<6, 0>>, <<7, 18>>, <<8, 36>>, <<20, 252>>, <<21, 255>>, <<255, 255>>}
            \subseteq RampPairs(1)

\* invocation i has written its destination file
Saved(i) == pc[i] \in {"print", "returned"}

\* invocation i is past lines 32-39
Cropped(i) == pc[i] \in {"compose", "save", "print", "returned"}

\* the source pixels that get a non-zero mask value (gain >= 1)
Bright(i) ==
    LET src == disk0[args[i].src_path]
    IN  {p \in Coords(src.w, src.h) : PixelMax(src.px[p]) > args[i].threshold}

\* C4: when every source pixel has max(r,g,b) <= threshold there is no bounding
\* box, nothing is cropped whatever pad is, and the file written has the
\* source's width and height and alpha 0 everywhere.
C4_DarkImageKeepsSize ==
    LET src == disk0[args[1].src_path]
        dst == fs[args[1].dst_path]
    IN  (src.kind = "image" /\ Bright(1) = {}) =>
            /\ Cropped(1) => (box[1] = NoBox /\ alpha[1].w = src.w /\ alpha[1].h = src.h)
            /\ Saved(1) =>
                /\ dst.kind = "image" /\ dst.w = src.w /\ dst.h = src.h
                /\ \A p \in Coords(src.w, src.h) : dst.px[p] = <<255, 255, 255, 0>>

\* a 3x2 image whose pixels all have max(r,g,b) equal to the threshold has been
\* written with a pad that is not 0
C4_Witness ==
    /\ Saved(1) /\ Bright(1) = {}
    /\ args[1].pad > 0
    /\ rgb[1].w = 3 /\ rgb[1].h = 2
    /\ \A p \in Coords(3, 2) : PixelMax(rgb[1].px[p]) = args[1].threshold
    /\ fs[args[1].dst_path].w = 3 /\ fs[args[1].dst_path].h = 2

\* C5: when some pixel has non-zero alpha, the rectangle passed to crop is the
\* bounding box of those pixels grown by pad on each side and clamped, and
\* 0 <= x0 < x1 <= w and 0 <= y0 < y1 <= h, also when pad reaches past an edge.
C5_CropInsideImage ==
    LET w == rgb[1].w
        h == rgb[1].h
        xs == {p[1] : p \in Bright(1)}
        ys == {p[2] : p \in Bright(1)}
        d == args[1].pad
    IN  /\ (Cropped(1) /\ Bright(1) # {}) =>
            /\ box[1] # NoBox
            /\ box[1][1] = Max2(0, SetMin(xs) - d)
            /\ box[1][2] = Max2(0, SetMin(ys) - d)
            /\ box[1][3] = Min2(w, SetMax(xs) + 1 + d)
            /\ box[1][4] = Min2(h, SetMax(ys) + 1 + d)
            /\ alpha[1].w = box[1][3] - box[1][1]
            /\ alpha[1].h = box[1][4] - box[1][2]
        /\ box[1] # NoBox =>
            /\ Bright(1) # {}
            /\ 0 <= box[1][1] /\ box[1][1] < box[1][3] /\ box[1][3] <= w
            /\ 0 <= box[1][2] /\ box[1][2] < box[1][4] /\ box[1][4] <= h

\* a bright pixel in the corner of a 2x3 image with pad 2: the padding reaches
\* past the left, upper and right edges and stops short of the lower one
C5_Witness ==
    /\ Cropped(1)
    /\ rgb[1].w = 2 /\ rgb[1].h = 3
    /\ Bright(1) = {<<0, 0>>}
    /\ args[1].pad = 2
    /\ box[1] = <<0, 0, 2, 3>>

\* C6: the 10x10 black image with one white pixel at (5, 5), processed with
\* threshold 6, gain 18 and pad 2: bounding box (5,5,6,6), crop (3,3,8,8), a 5x5
\* output whose pixel (2, 2) is white with alpha 255 and whose other 24 pixels
\* have alpha 0.
C6_SinglePixelScenario ==
    LET dst == fs[args[1].dst_path]
    IN  /\ pc[1] = "bbox" => GetBBox(alpha[1]) = <<5, 5, 6, 6>>
        /\ Cropped(1) => box[1] = <<3, 3, 8, 8>>
        /\ Saved(1) =>
            /\ dst.kind = "image" /\ dst.w = 5 /\ dst.h = 5
            /\ dst.px[<<2, 2>>] = <<255, 255, 255, 255>>
            /\ Cardinality({p \in Coords(5, 5) : dst.px[p][4] = 0}) = 24
            /\ \A p \in Coords(5, 5) : p # <<2, 2>> => dst.px[p][4] = 0
            /\ pc[1] = "returned" => stdout = <<[path |-> args[1].dst_path, w |-> 5, h |-> 5]>>

\* the scenario has run to its end
C6_Witness ==
    /\ pc[1] = "returned"
    /\ disk0[args[1].src_path] = ScenarioImage
    /\ args[1].threshold = 6 /\ args[1].gain = 18 /\ args[1].pad = 2
    /\ fs[args[1].dst_path].kind = "image"

AllReturned == \A i \in Inv : pc[i] = "returned"
AnyRaised == \E i \in Inv : pc[i] = "raised"

\* what a successful call i leaves in its destination, and the line it prints
Expected(i) == ProcessImage(disk0[SrcPath(i)], DefaultArgs(i))
ExpectedLine(i) == [path |-> DstPath(i), w |-> Expected(i).w, h |-> Expected(i).h]

\* C7: a run in which nothing fails makes exactly two calls, signature-david
\* first and signature-farax second, both with threshold 6, gain 18 and pad 24,
\* writes exactly the two -white.png files, prints exactly two status lines in
\* that order, and ends.
C7_TwoCallsInOrder ==
    /\ [](pc[2] # "notstarted" => pc[1] = "returned")
    /\ [](\A i \in Inv : pc[i] # "notstarted" =>
            args[i] = [src_path |-> SrcPath(i), dst_path |-> DstPath(i),
                       threshold |-> 6, gain |-> 18, pad |-> 24])
    /\ [](Len(stdout) <= 2)
    /\ [](AllReturned =>
            /\ stdout = <<ExpectedLine(1), ExpectedLine(2)>>
            /\ \A i \in Inv : fs[DstPath(i)] = Expected(i) /\ fs[SrcPath(i)] = disk0[SrcPath(i)])
    /\ <>[](AllReturned \/ AnyRaised)

\* both calls have returned, having replaced an older destination file
C7_Witness ==
    /\ AllReturned
    /\ disk0[DstPath(1)] = Stale
    /\ Len(stdout) = 2
    /\ fs[DstPath(1)] # fs[DstPath(2)]

\* C8: a failure is never caught or retried and ends the run at once: after it
\* no statement of the failing call and no later call runs (the second call is
\* never started when the first fails), and the files written by an earlier call
\* stay as they are.
C8_FailureAbortsRun ==
    /\ [](pc[1] = "raised" => pc[2] = "notstarted")
    /\ [](pc[2] = "raised" => (pc[1] = "returned" /\ fs[DstPath(1)] = Expected(1)))
    /\ [][ /\ AnyRaised => UNCHANGED <<fs, stdout, pc, err, args>>
           /\ (AnyRaised' /\ ~AnyRaised) =>
                /\ stdout' = stdout
                /\ \A i \in Inv : pc[i] = "returned" => fs'[DstPath(i)] = fs[DstPath(i)] ]_vars

\* the second call has failed after the first wrote its file, and the first
\* call's file is in place
C8_Witness ==
    /\ pc[1] = "returned" /\ pc[2] = "raised"
    /\ fs[DstPath(1)] = Expected(1)
    /\ fs[DstPath(1)] # disk0[DstPath(1)]

\* the lines printed for call i
LinesOf(i) == {k \in 1..Len(stdout) : stdout[k].path = DstPath(i)}

\* C9: a call writes its destination only after decoding, masking and cropping
\* are done, and prints its line only after the write: a call that failed before
\* its write has not touched its destination and has printed nothing, and a
\* destination that was touched by a call whose write did not fail holds the
\* complete output.
C9_WriteAfterProcessing ==
    \A i \in Inv :
        /\ err[i] = "decode" => (fs[DstPath(i)] = disk0[DstPath(i)] /\ LinesOf(i) = {})
        /\ pc[i] \in {"notstarted", "open", "scan", "bbox", "compose", "save"} =>
                (fs[DstPath(i)] = disk0[DstPath(i)] /\ LinesOf(i) = {})
        /\ (fs[DstPath(i)] # disk0[DstPath(i)] /\ err[i] # "write") =>
                (pc[i] \in {"print", "returned"} /\ fs[DstPath(i)] = Expected(i))
        /\ LinesOf(i) # {} => (pc[i] = "returned" /\ fs[DstPath(i)] = Expected(i))

\* the second call failed to decode its source: its stale destination is as it
\* was and only the first call's line is printed
C9_Witness ==
    /\ err[2] = "decode"
    /\ disk0[DstPath(2)] = Stale /\ fs[DstPath(2)] = Stale
    /\ Len(stdout) = 1

\* the destination files and the set of status lines
Outcome == [files |-> [i \in Inv |-> fs[DstPath(i)]],
            lines |-> {stdout[k] : k \in 1..Len(stdout)}]

\* how out.save of a call may end
SaveResults == {"ok", "unwritten", "partial"}

\* the outcome of the sequential run on disk d, out.save of call i ending as res[i]
SeqRun(d, res) ==
    LET saves1 == d[SrcPath(1)].kind = "image"
        saves2 == saves1 /\ res[1] = "ok" /\ d[SrcPath(2)].kind = "image"
        saves(i) == IF i = 1 THEN saves1 ELSE saves2
        img(i) == ProcessImage(d[SrcPath(i)], DefaultArgs(i))
    IN  [files |-> [i \in Inv |->
                      IF saves(i) /\ res[i] = "ok" THEN img(i)
                      ELSE IF saves(i) /\ res[i] = "partial" THEN Corrupt
                      ELSE d[DstPath(i)]],
         lines |-> {[path |-> DstPath(i), w |-> img(i).w, h |-> img(i).h] :
                      i \in {j \in Inv : saves(j) /\ res[j] = "ok"}}]

ParEnded == \A i \in Inv : pc[i] \in {"returned", "raised"}

====
